---- MODULE Spec2Model ----
(***************************************************************************)
(* Reminder-notification engine of the daily task reminder app, the home   *)
(* screen's notification tap, and the task repository over task storage.   *)
(*                                                                         *)
(*   hooks/use-task-notifications.ts   syncNotifications, notificationMap  *)
(*   lib/notifications/notification-helper.ts                              *)
(*                                     scheduleTaskReminder, cancelReminder*)
(*   lib/context/task-context.tsx      taskReducer (state.tasks)           *)
(*   app/(tabs)/index.tsx              notification response listener      *)
(*   lib/repository/task-repository.ts createTask, updateTask              *)
(*   lib/storage/task-storage.ts       getAllTasks, createTask, updateTask *)
(*                                                                         *)
(* Times are integers in milliseconds; trigger offsets are in seconds, as  *)
(* in the code.  A step of a pass is the code between two awaits of        *)
(* syncNotifications; each awaited helper call is one step.                *)
(***************************************************************************)
EXTENDS Integers, Naturals, Sequences, FiniteSets, TLC

VARIABLES tasks, created, edits, now, notificationMap, scheduled, nextId,
          pass, lastArg, syncCount, failures,
          delivered, editingTask, addDialogVisible, taps,
          stored, uuids, storeOps, lastCall,
          state, calls, ioFailures, returned

vars == <<tasks, created, edits, now, notificationMap, scheduled, nextId,
          pass, lastArg, syncCount, failures,
          delivered, editingTask, addDialogVisible, taps,
          stored, uuids, storeOps, lastCall,
          state, calls, ioFailures, returned>>

(* the reconciler, the task collection of the screen and the platform *)
engineVars == <<tasks, created, edits, now, notificationMap, scheduled, nextId,
                pass, lastArg, syncCount, failures, delivered>>

(* AsyncStorage's task list and the record of the last repository call *)
storeVars == <<stored, uuids, storeOps, lastCall>>

(* the home screen's dialog state and the record of the taps handled *)
screenVars == <<editingTask, addDialogVisible, taps>>

(* the task context's reducer state, its callbacks in flight, the number of *)
(* AsyncStorage calls that have failed, and what the callbacks that wrote   *)
(* the list have returned: ids created, ids deleted, ids whose last update  *)
(* to return gave a title                                                   *)
contextVars == <<state, calls, ioFailures, returned>>

----------------------------------------------------------------------------
(* Bounds of the model *)

(* tasks ever created (ids are never reused, as with generateUUID) *)
MaxTasks == 2
(* changes of the task collection *)
MaxEdits == 3
(* invocations of syncNotifications *)
MaxSyncs == 2
(* scheduler calls that throw *)
MaxFailures == 1
(* passes that can be in flight at once (pass records) *)
MaxInFlight == 2
(* notification taps handled *)
MaxTaps == 2
(* repository calls *)
MaxStoreOps == 3
(* context callbacks that may be running at once *)
MaxCalls == 2
(* AsyncStorage calls that fail in one run *)
MaxIoFailures == 1

----------------------------------------------------------------------------
(* Program constants *)

MsPerSecond == 1000
SecondsPerHour == 3600
followUpIntervals == <<120, 240, 360, 480, 600>>

(* absence of task.reminderTime (undefined is falsy) *)
NoTime == 0
(* scheduleTaskReminder returning null / notificationMap.get returning undefined *)
NoId == 0
(* editingTask = null; a notification payload without a string taskId *)
NoTaskId == 0

----------------------------------------------------------------------------
(* Inputs: reminder instants the user can pick and the instants at which   *)
(* the clock is read.                                                      *)

HourMs == SecondsPerHour * MsPerSecond
R1 == 100 * HourMs
R2 == R1 - HourMs
ReminderTimes == {R1, R2}

Instants == <<R1 - 25 * HourMs,
              R1 - 3 * HourMs,
              R1 - 500,
              R1 + 180000>>

(* lead times (reminderTime - now, in ms) around every threshold of the code *)
Around(ms) == {ms - 1, ms, ms + 1, ms + 999, ms + 1000, ms + 1001}
Leads ==
  {0 - HourMs, 3 * HourMs, 25 * HourMs} \cup Around(0) \cup Around(6 * HourMs)
    \cup Around(12 * HourMs) \cup Around(24 * HourMs)

(* titles a task can be given; a new task gets the first *)
Titles == <<"call", "call back">>

TaskIds == 1..MaxTasks
PassIds == 1..MaxInFlight
CallIds == 1..MaxCalls

----------------------------------------------------------------------------
(* Task collection (state.tasks) *)

Task(id, enabled, time) ==
  [id |-> id, title |-> Titles[1], reminderEnabled |-> enabled,
   reminderTime |-> time,
   isCompleted |-> FALSE]

(* t.reminderEnabled && t.reminderTime *)
HasReminder(t) == t.reminderEnabled /\ t.reminderTime # NoTime

Ids(ts) == {ts[i].id : i \in 1..Len(ts)}

(* tasks.find((t) => t.id === taskId); only used when the id is present *)
Find(ts, id) == ts[CHOOSE i \in 1..Len(ts) : ts[i].id = id]

taskIdsWithReminders(ts) ==
  {ts[i].id : i \in {j \in 1..Len(ts) : HasReminder(ts[j])}}

----------------------------------------------------------------------------
(* notificationMap: a Map<taskId, notificationId>, kept in insertion order *)

MapKeys(m) == {m[i].taskId : i \in 1..Len(m)}
MapHas(m, id) == id \in MapKeys(m)
MapGet(m, id) ==
  IF MapHas(m, id)
    THEN m[CHOOSE i \in 1..Len(m) : m[i].taskId = id].notificationId
    ELSE NoId
MapSet(m, id, nid) ==
  IF MapHas(m, id)
    THEN [i \in 1..Len(m) |->
            IF m[i].taskId = id THEN [taskId |-> id, notificationId |-> nid]
                                ELSE m[i]]
    ELSE Append(m, [taskId |-> id, notificationId |-> nid])

----------------------------------------------------------------------------
(* scheduleTaskReminder: the events computed for one reminder *)

(* Math.floor((reminderDate.getTime() - now.getTime()) / 1000) *)
secondsUntilReminder(reminderTime, clock) == (reminderTime - clock) \div MsPerSecond

(* hoursUntilReminder > h, with hoursUntilReminder = secondsUntilReminder / 3600 *)
hoursUntilReminderExceeds(seconds, h) == seconds > h * SecondsPerHour

Event(tier, seconds) == [tier |-> tier, seconds |-> seconds]

(* >= in place of > in both tests of a tier *)
AdvanceTier_ge(seconds, h, tier) ==
  IF seconds >= h * SecondsPerHour
    THEN <<Event(tier, seconds - h * SecondsPerHour)>>
    ELSE <<>>

AdvanceTier(seconds, h, tier) ==
  IF hoursUntilReminderExceeds(seconds, h) /\ seconds - h * SecondsPerHour > 0
    THEN <<Event(tier, seconds - h * SecondsPerHour)>>
    ELSE <<>>

advanceNotifications(seconds) ==
  AdvanceTier(seconds, 24, "advance24")
    \o AdvanceTier(seconds, 12, "advance12")
    \o AdvanceTier(seconds, 6, "advance6")

followUpTiers == <<"followUp1", "followUp2", "followUp3", "followUp4", "followUp5">>

(* follow-ups counted from now instead of from the reminder *)
followUps_fromNow(seconds) ==
  [j \in 1..Len(followUpIntervals) |->
     Event(followUpTiers[j], followUpIntervals[j])]

followUps(seconds) ==
  [j \in 1..Len(followUpIntervals) |->
     Event(followUpTiers[j], seconds + followUpIntervals[j])]

(* the at-time notification scheduled before the advance ones *)
DesiredEvents_mainFirst(seconds) ==
  <<Event("main", seconds)>> \o advanceNotifications(seconds) \o followUps(seconds)

(* the scheduleNotificationAsync calls of one scheduleTaskReminder, in order *)
DesiredEvents(seconds) ==
  advanceNotifications(seconds) \o <<Event("main", seconds)>> \o followUps(seconds)

(* the id returned is that of the first call *)
MainIndex_first(seconds) == 1

(* position of the main notification, whose id scheduleTaskReminder returns *)
MainIndex(seconds) == Len(advanceNotifications(seconds)) + 1

(* reminderDate < now *)
InPast_strict(reminderTime, clock) == reminderTime < clock

(* "Don't schedule if reminder time is in the past": reminderDate <= now *)
InPast(reminderTime, clock) == reminderTime <= clock

(* the permission check of lines 143-147 left out *)
Refused_ignorePermission(permission, reminderTime, clock) ==
  InPast(reminderTime, clock)

(* the two early returns of scheduleTaskReminder: permission not granted *)
(* (lines 143-147) or reminder not in the future (lines 153-156)         *)
Refused(permission, reminderTime, clock) ==
  ~permission \/ InPast(reminderTime, clock)

----------------------------------------------------------------------------
(* syncNotifications: synchronous pieces *)

(* line 72 without the test of the existing notification id *)
NeedsSchedule_always(ts, m, j) == HasReminder(ts[j])

(* line 69 without the reminderEnabled test *)
NeedsSchedule_noEnabled(ts, m, j) ==
  ts[j].reminderTime # NoTime /\ MapGet(m, ts[j].id) = NoId

(* first task at or after position from that the scheduling loop awaits on *)
NeedsSchedule(ts, m, j) == HasReminder(ts[j]) /\ MapGet(m, ts[j].id) = NoId

NextToSchedule(ts, m, from) ==
  IF \E j \in from..Len(ts) : NeedsSchedule(ts, m, j)
    THEN CHOOSE j \in from..Len(ts) :
           /\ NeedsSchedule(ts, m, j)
           /\ \A k \in from..(j - 1) : ~NeedsSchedule(ts, m, k)
    ELSE Len(ts) + 1

(* line 97 without the !task test *)
Stale_noMissing(ts, e) == e.taskId \in Ids(ts) /\ ~HasReminder(Find(ts, e.taskId))

(* line 97 without the !task.reminderEnabled test *)
Stale_noEnabled(ts, e) ==
  e.taskId \notin Ids(ts) \/ Find(ts, e.taskId).reminderTime = NoTime

(* line 97 without the !task.reminderTime test *)
Stale_noTime(ts, e) ==
  e.taskId \notin Ids(ts) \/ ~Find(ts, e.taskId).reminderEnabled

(* the entry of a completed task counts as stale too *)
Stale_completed(ts, e) ==
  \/ e.taskId \notin Ids(ts)
  \/ ~HasReminder(Find(ts, e.taskId))
  \/ Find(ts, e.taskId).isCompleted

(* !task || !task.reminderEnabled || !task.reminderTime *)
Stale(ts, e) == e.taskId \notin Ids(ts) \/ ~HasReminder(Find(ts, e.taskId))

StaleEntries(ts, m) == SelectSeq(m, LAMBDA e : Stale(ts, e))

notificationIdsToCancel(ts, m) ==
  [j \in 1..Len(StaleEntries(ts, m)) |-> StaleEntries(ts, m)[j].notificationId]

(* notificationMap.delete(taskId) of line 99 left out: the entry would *)
(* be kept until a cancel call has succeeded                           *)
MapAfterCancel_keep(ts, m) == m

(* lines 93-101: the stale keys are deleted before any cancel call is made *)
MapAfterCancel(ts, m) == SelectSeq(m, LAMBDA e : ~Stale(ts, e))

IdlePass ==
  [pc |-> "idle", tasks |-> <<>>, i |-> 0, result |-> NoId, toCancel |-> <<>>,
   map0 |-> <<>>, prev |-> <<>>, hasPrev |-> FALSE, log |-> <<>>,
   cancelCalls |-> <<>>]

(* the pass leaves the scheduling loop at position j: it continues with the *)
(* next task to schedule or runs the cancel collection of lines 89-101      *)
Continue(pr, m, j) ==
  IF NextToSchedule(pr.tasks, m, j) <= Len(pr.tasks)
    THEN [pr EXCEPT !.pc = "sched", !.i = NextToSchedule(pr.tasks, m, j)]
    ELSE [pr EXCEPT !.pc = IF notificationIdsToCancel(pr.tasks, m) = <<>>
                             THEN "done" ELSE "cancel",
                    !.i = Len(pr.tasks) + 1,
                    !.toCancel = notificationIdsToCancel(pr.tasks, m)]

MapAfterContinue(pr, m, j) ==
  IF NextToSchedule(pr.tasks, m, j) <= Len(pr.tasks)
    THEN m
    ELSE MapAfterCancel(pr.tasks, m)

NoPassInFlight == \A p \in PassIds : pass[p].pc \in {"idle", "done"}

----------------------------------------------------------------------------
(* no repository call made yet; storage holds an empty list *)
NoCall == [op |-> "none"]

InitStore ==
  /\ stored = <<>>
  /\ uuids = 0
  /\ storeOps = 0
  /\ lastCall = NoCall

(* state.error === null *)
NoError == ""

(* task-context initialState: no tasks, loading, no error *)
initialState == [tasks |-> <<>>, loading |-> TRUE, error |-> NoError]

(* a context callback that is not running *)
IdleCall == [pc |-> "idle"]

(* no callback of the task context running, no AsyncStorage call failed *)
InitContext ==
  /\ state = initialState
  /\ calls = [c \in CallIds |-> IdleCall]
  /\ ioFailures = 0
  /\ returned = [created |-> {}, deleted |-> {}, titled |-> {}]

(* useState(false), useState<string | null>(null); nothing delivered yet *)
InitScreen ==
  /\ delivered = {}
  /\ editingTask = NoTaskId
  /\ addDialogVisible = FALSE
  /\ taps = <<>>

Init ==
  /\ tasks = <<>>
  /\ created = 0
  /\ edits = 0
  /\ now = Instants[1]
  /\ notificationMap = <<>>
  /\ scheduled = {}
  /\ nextId = 1
  /\ pass = [p \in PassIds |-> IdlePass]
  /\ lastArg = [has |-> FALSE, tasks |-> <<>>]
  /\ syncCount = 0
  /\ failures = 0
  /\ InitScreen
  /\ InitStore
  /\ InitContext

----------------------------------------------------------------------------
(* The task collection changes (taskReducer) *)

ADD_TASK(enabled, time) ==
  /\ edits < MaxEdits
  /\ edits' = edits + 1
  /\ created < MaxTasks
  /\ created' = created + 1
  /\ tasks' = <<Task(created + 1, enabled, time)>> \o tasks
  /\ UNCHANGED <<now, notificationMap, scheduled, nextId, pass,
                 lastArg, syncCount, failures>>
  /\ UNCHANGED <<delivered, screenVars, storeVars, contextVars>>

UPDATE_TASK(id, enabled, time) ==
  /\ edits < MaxEdits
  /\ edits' = edits + 1
  /\ id \in Ids(tasks)
  /\ <<Find(tasks, id).reminderEnabled, Find(tasks, id).reminderTime>>
       # <<enabled, time>>
  /\ tasks' = [j \in 1..Len(tasks) |->
                 IF tasks[j].id = id
                   THEN [tasks[j] EXCEPT !.reminderEnabled = enabled,
                                         !.reminderTime = time]
                   ELSE tasks[j]]
  /\ UNCHANGED <<created, now, notificationMap, scheduled, nextId, pass,
                 lastArg, syncCount, failures>>
  /\ UNCHANGED <<delivered, screenVars, storeVars, contextVars>>

(* UPDATE_TASK with a task whose title was edited *)
UPDATE_TITLE(id, title) ==
  /\ edits < MaxEdits
  /\ edits' = edits + 1
  /\ id \in Ids(tasks)
  /\ Find(tasks, id).title # title
  /\ tasks' = [j \in 1..Len(tasks) |->
                 IF tasks[j].id = id THEN [tasks[j] EXCEPT !.title = title]
                                     ELSE tasks[j]]
  /\ UNCHANGED <<created, now, notificationMap, scheduled, nextId, pass,
                 lastArg, syncCount, failures>>
  /\ UNCHANGED <<delivered, screenVars, storeVars, contextVars>>

(* toggleTaskCompletionFn: UPDATE_TASK with the task that storage          *)
(* toggleTaskCompletion returns, { ...task, isCompleted: !task.isCompleted, *)
(* updatedAt }                                                              *)
toggleTaskCompletion(id) ==
  /\ edits < MaxEdits
  /\ edits' = edits + 1
  /\ id \in Ids(tasks)
  /\ tasks' = [j \in 1..Len(tasks) |->
                 IF tasks[j].id = id
                   THEN [tasks[j] EXCEPT !.isCompleted = ~tasks[j].isCompleted]
                   ELSE tasks[j]]
  /\ UNCHANGED <<created, now, notificationMap, scheduled, nextId, pass,
                 lastArg, syncCount, failures>>
  /\ UNCHANGED <<delivered, screenVars, storeVars, contextVars>>

DELETE_TASK(id) ==
  /\ edits < MaxEdits
  /\ edits' = edits + 1
  /\ id \in Ids(tasks)
  /\ tasks' = SelectSeq(tasks, LAMBDA t : t.id # id)
  /\ UNCHANGED <<created, now, notificationMap, scheduled, nextId, pass,
                 lastArg, syncCount, failures>>
  /\ UNCHANGED <<delivered, screenVars, storeVars, contextVars>>

----------------------------------------------------------------------------
(* The platform: clock and delivery of due notifications *)

Tick(k) ==
  /\ Instants[k] > now
  /\ now' = Instants[k]
  /\ scheduled' = {n \in scheduled : n.fireAt > Instants[k]}
  /\ UNCHANGED <<tasks, created, edits, notificationMap, nextId, pass, lastArg,
                 syncCount, failures>>
  /\ delivered' = delivered \cup
       {n.taskId : n \in {d \in scheduled : d.fireAt <= Instants[k]}}
  /\ UNCHANGED <<screenVars, storeVars, contextVars>>

----------------------------------------------------------------------------
(* syncNotifications(tasks), up to its first await *)

syncNotifications(p) ==
  /\ pass[p].pc \in {"idle", "done"}
  /\ \A q \in 1..(p - 1) : pass[q].pc \notin {"idle", "done"}
  /\ syncCount < MaxSyncs
  /\ syncCount' = syncCount + 1
  /\ LET fresh == [IdlePass EXCEPT !.tasks = tasks,
                                   !.map0 = notificationMap,
                                   !.prev = lastArg.tasks,
                                   !.hasPrev = lastArg.has]
     IN /\ pass' = [pass EXCEPT ![p] = Continue(fresh, notificationMap, 1)]
        /\ notificationMap' = MapAfterContinue(fresh, notificationMap, 1)
  /\ lastArg' = [has |-> TRUE, tasks |-> tasks]
  /\ UNCHANGED <<tasks, created, edits, now, scheduled, nextId, failures>>
  /\ UNCHANGED <<delivered, screenVars, storeVars, contextVars>>

----------------------------------------------------------------------------
(* await notificationHelper.scheduleTaskReminder(task.id, task.title,      *)
(* task.reminderTime) for the task at position pass[p].i                   *)

(* the notification the scheduler holds for the j-th accepted event *)
Pending(taskId, taskTitle, evs, j, firstId, clock) ==
  [id |-> firstId + j - 1, taskId |-> taskId, taskTitle |-> taskTitle,
   tier |-> evs[j].tier, fireAt |-> clock + evs[j].seconds * MsPerSecond]

(* record of one call: the events handed to the scheduler and the outcome *)
Call(taskId, lead, granted, submitted, result) ==
  [taskId |-> taskId, lead |-> lead, granted |-> granted,
   submitted |-> submitted, result |-> result]

Submitted(evs, n, okUpTo) ==
  [j \in 1..n |-> [tier |-> evs[j].tier, seconds |-> evs[j].seconds,
                   ok |-> j <= okUpTo]]

scheduleTaskReminder(p, permission) ==
  /\ pass[p].pc = "sched"
  /\ LET t == pass[p].tasks[pass[p].i]
         lead == t.reminderTime - now
         seconds == secondsUntilReminder(t.reminderTime, now)
         evs == DesiredEvents(seconds)
     IN IF Refused(permission, t.reminderTime, now)
          THEN /\ pass' = [pass EXCEPT
                      ![p].pc = "resume",
                      ![p].result = NoId,
                      ![p].log = Append(@, Call(t.id, lead, permission, <<>>, NoId))]
               /\ UNCHANGED <<scheduled, nextId, failures>>
          ELSE \/ (* every scheduleNotificationAsync call is accepted *)
                  /\ scheduled' = scheduled \cup
                       {Pending(t.id, t.title, evs, j, nextId, now) : j \in 1..Len(evs)}
                  /\ nextId' = nextId + Len(evs)
                  /\ pass' = [pass EXCEPT
                       ![p].pc = "resume",
                       ![p].result = nextId + MainIndex(seconds) - 1,
                       ![p].log = Append(@, Call(t.id, lead, permission,
                                    Submitted(evs, Len(evs), Len(evs)),
                                    nextId + MainIndex(seconds) - 1))]
                  /\ UNCHANGED failures
               \/ (* the call for event k + 1 throws: caught at line 291 *)
                  \E k \in 0..(Len(evs) - 1) :
                    /\ failures < MaxFailures
                    /\ failures' = failures + 1
                    /\ scheduled' = scheduled \cup
                         {Pending(t.id, t.title, evs, j, nextId, now) : j \in 1..k}
                    /\ nextId' = nextId + k
                    /\ pass' = [pass EXCEPT
                         ![p].pc = "resume",
                         ![p].result = NoId,
                         ![p].log = Append(@, Call(t.id, lead, permission,
                                      Submitted(evs, k + 1, k), NoId))]
  /\ UNCHANGED <<tasks, created, edits, now, notificationMap, lastArg, syncCount>>
  /\ UNCHANGED <<delivered, screenVars, storeVars, contextVars>>

(* back in syncNotifications after the await: lines 80-87, then 89-101 *)
syncResume(p) ==
  /\ pass[p].pc = "resume"
  /\ LET id == pass[p].tasks[pass[p].i].id
         m == IF pass[p].result # NoId
                THEN MapSet(notificationMap, id, pass[p].result)
                ELSE notificationMap
     IN /\ pass' = [pass EXCEPT ![p] = Continue(pass[p], m, pass[p].i + 1)]
        /\ notificationMap' = MapAfterContinue(pass[p], m, pass[p].i + 1)
  /\ UNCHANGED <<tasks, created, edits, now, scheduled, nextId, lastArg, syncCount,
                 failures>>
  /\ UNCHANGED <<delivered, screenVars, storeVars, contextVars>>

(* a failing cancel ends the pass, as if cancelReminder rethrew into the *)
(* catch of syncNotifications                                           *)
PcAfterCancel_abort(rest, ok) ==
  IF rest = <<>> \/ ~ok THEN "done" ELSE "cancel"

(* the for loop of lines 104-106 goes on to the next id whatever the   *)
(* outcome: cancelReminder catches its own errors (part_003:307-309)   *)
PcAfterCancel(rest, ok) ==
  IF rest = <<>> THEN "done" ELSE "cancel"

(* await notificationHelper.cancelReminder(notificationId), lines 104-106 *)
cancelReminder(p) ==
  /\ pass[p].pc = "cancel"
  /\ LET nid == Head(pass[p].toCancel)
         rest == Tail(pass[p].toCancel)
     IN \/ /\ scheduled' = {n \in scheduled : n.id # nid}
           /\ pass' = [pass EXCEPT
                ![p].toCancel = rest,
                ![p].cancelCalls = Append(@, [notificationId |-> nid, ok |-> TRUE]),
                ![p].pc = PcAfterCancel(rest, TRUE)]
           /\ UNCHANGED failures
        \/ (* cancelScheduledNotificationAsync throws: caught at line 307 *)
           /\ failures < MaxFailures
           /\ failures' = failures + 1
           /\ pass' = [pass EXCEPT
                ![p].toCancel = rest,
                ![p].cancelCalls = Append(@, [notificationId |-> nid, ok |-> FALSE]),
                ![p].pc = PcAfterCancel(rest, FALSE)]
           /\ UNCHANGED scheduled
  /\ UNCHANGED <<tasks, created, edits, now, notificationMap, nextId, lastArg,
                 syncCount>>
  /\ UNCHANGED <<delivered, screenVars, storeVars, contextVars>>

----------------------------------------------------------------------------
(* Spec and SpecLoaded take the calls of syncNotifications one after the    *)
(* other: the collection changes and a pass starts only when no pass is in *)
(* flight.  SpecOverlap is the hook as written, without that assumption.   *)
Next ==
  \/ \E e \in BOOLEAN, r \in ReminderTimes \cup {NoTime} :
       NoPassInFlight /\ ADD_TASK(e, r)
  \/ \E id \in TaskIds, e \in BOOLEAN, r \in ReminderTimes \cup {NoTime} :
       NoPassInFlight /\ UPDATE_TASK(id, e, r)
  \/ \E id \in TaskIds : NoPassInFlight /\ DELETE_TASK(id)
  \/ \E k \in 1..Len(Instants) : Tick(k)
  \/ \E p \in PassIds : NoPassInFlight /\ syncNotifications(p)
  \/ \E p \in PassIds, granted \in BOOLEAN : scheduleTaskReminder(p, granted)
  \/ \E p \in PassIds : syncResume(p)
  \/ \E p \in PassIds : cancelReminder(p)

Spec == Init /\ [][Next]_vars

----------------------------------------------------------------------------
(* One task with a reminder at every lead time of Leads, reconciled *)

InitLead ==
  /\ now = Instants[1]
  /\ \E lead \in Leads : tasks = <<Task(1, TRUE, Instants[1] + lead)>>
  /\ created = 1
  /\ edits = 1
  /\ notificationMap = <<>>
  /\ scheduled = {}
  /\ nextId = 1
  /\ pass = [p \in PassIds |-> IdlePass]
  /\ lastArg = [has |-> FALSE, tasks |-> <<>>]
  /\ syncCount = 0
  /\ failures = 0
  /\ InitScreen
  /\ InitStore
  /\ InitContext

NextLead ==
  \/ \E p \in PassIds : NoPassInFlight /\ syncNotifications(p)
  \/ \E p \in PassIds, granted \in BOOLEAN : scheduleTaskReminder(p, granted)
  \/ \E p \in PassIds : syncResume(p)

SpecLead == InitLead /\ [][NextLead]_vars

----------------------------------------------------------------------------
(* The collection as loaded from storage (SET_TASKS): two tasks with a      *)
(* reminder each, then edited and reconciled                                *)

InitLoaded ==
  /\ tasks = <<Task(2, TRUE, R1), Task(1, TRUE, R2)>>
  /\ created = 2
  /\ edits = 1
  /\ now = Instants[1]
  /\ notificationMap = <<>>
  /\ scheduled = {}
  /\ nextId = 1
  /\ pass = [p \in PassIds |-> IdlePass]
  /\ lastArg = [has |-> FALSE, tasks |-> <<>>]
  /\ syncCount = 0
  /\ failures = 0
  /\ InitScreen
  /\ InitStore
  /\ InitContext

NextLoaded ==
  \/ \E id \in TaskIds, e \in BOOLEAN, r \in ReminderTimes \cup {NoTime} :
       NoPassInFlight /\ UPDATE_TASK(id, e, r)
  \/ \E id \in TaskIds, j \in DOMAIN Titles :
       NoPassInFlight /\ UPDATE_TITLE(id, Titles[j])
  \/ \E id \in TaskIds : NoPassInFlight /\ DELETE_TASK(id)
  \/ \E k \in 1..Len(Instants) : Tick(k)
  \/ \E p \in PassIds : NoPassInFlight /\ syncNotifications(p)
  \/ \E p \in PassIds, granted \in BOOLEAN : scheduleTaskReminder(p, granted)
  \/ \E p \in PassIds : syncResume(p)
  \/ \E p \in PassIds : cancelReminder(p)

SpecLoaded == InitLoaded /\ [][NextLoaded]_vars

(* the loaded collection with completion toggles and deletions *)
NextToggle ==
  \/ \E id \in TaskIds : NoPassInFlight /\ toggleTaskCompletion(id)
  \/ \E id \in TaskIds : NoPassInFlight /\ DELETE_TASK(id)
  \/ \E k \in 1..Len(Instants) : Tick(k)
  \/ \E p \in PassIds : NoPassInFlight /\ syncNotifications(p)
  \/ \E p \in PassIds, granted \in BOOLEAN : scheduleTaskReminder(p, granted)
  \/ \E p \in PassIds : syncResume(p)
  \/ \E p \in PassIds : cancelReminder(p)

SpecToggle == InitLoaded /\ [][NextToggle]_vars

----------------------------------------------------------------------------
(* The hook as written: useEffect(() => { syncNotifications(tasks) },      *)
(* [tasks]) calls syncNotifications, without awaiting it, on the first     *)
(* render and after every render with a changed collection; the reducer    *)
(* changes the collection whenever the user acts.                          *)

(* the effect's dependency test *)
tasksChanged == ~lastArg.has \/ lastArg.tasks # tasks

NextOverlap ==
  \/ \E e \in BOOLEAN, r \in ReminderTimes \cup {NoTime} : ADD_TASK(e, r)
  \/ \E id \in TaskIds, e \in BOOLEAN, r \in ReminderTimes \cup {NoTime} :
       UPDATE_TASK(id, e, r)
  \/ \E id \in TaskIds : DELETE_TASK(id)
  \/ \E p \in PassIds : tasksChanged /\ syncNotifications(p)
  \/ \E p \in PassIds, granted \in BOOLEAN : scheduleTaskReminder(p, granted)
  \/ \E p \in PassIds : syncResume(p)
  \/ \E p \in PassIds : cancelReminder(p)

SpecOverlap == Init /\ [][NextOverlap]_vars

----------------------------------------------------------------------------
(* The home screen: a tap on a delivered notification (index.tsx:83-101)   *)

(* the existence test of lines 89-90 left out *)
Routed_noExistenceCheck(ts, taskId) == taskId # NoTaskId

(* taskId && typeof taskId === "string", then state.tasks.find(...) found *)
Routed(ts, taskId) == taskId # NoTaskId /\ taskId \in Ids(ts)

(* the listener is subscribed again after every change of state.tasks, so  *)
(* it reads the current collection.  The payload is that of a delivered    *)
(* notification of this app, or carries no task id.                        *)
Tap(taskId) ==
  /\ Len(taps) < MaxTaps
  /\ taskId \in delivered \cup {NoTaskId}
  /\ IF Routed(tasks, taskId)
       THEN /\ editingTask' = taskId
            /\ addDialogVisible' = TRUE
       ELSE UNCHANGED <<editingTask, addDialogVisible>>
  /\ taps' = Append(taps, [taskId |-> taskId,
                           ids |-> Ids(tasks),
                           before |-> <<editingTask, addDialogVisible>>,
                           after |-> <<editingTask', addDialogVisible'>>])
  /\ UNCHANGED <<tasks, created, edits, now, notificationMap, scheduled, nextId,
                 pass, lastArg, syncCount, failures, delivered, storeVars,
                 contextVars>>

(* AddTaskDialog onClose: setAddDialogVisible(false); setEditingTask(null) *)
CloseDialog ==
  /\ addDialogVisible
  /\ addDialogVisible' = FALSE
  /\ editingTask' = NoTaskId
  /\ UNCHANGED <<tasks, created, edits, now, notificationMap, scheduled, nextId,
                 pass, lastArg, syncCount, failures, delivered, taps, storeVars,
                 contextVars>>

NextTap ==
  \/ \E id \in TaskIds : NoPassInFlight /\ DELETE_TASK(id)
  \/ \E k \in 1..Len(Instants) : Tick(k)
  \/ \E p \in PassIds : NoPassInFlight /\ syncNotifications(p)
  \/ \E p \in PassIds, granted \in BOOLEAN : scheduleTaskReminder(p, granted)
  \/ \E p \in PassIds : syncResume(p)
  \/ \E p \in PassIds : cancelReminder(p)
  \/ \E id \in TaskIds \cup {NoTaskId} : Tap(id)
  \/ CloseDialog

SpecTap == InitLoaded /\ [][NextTap]_vars

----------------------------------------------------------------------------
(* Task repository and task storage (lib/repository/task-repository.ts,    *)
(* lib/storage/task-storage.ts).  A stored task is a function from the     *)
(* keys that have a value to these values, as JSON keeps it.  An object in *)
(* memory also has keys whose value is undefined (undef): a spread copies  *)
(* them, JSON.stringify drops them.  Text is a sequence of characters.     *)

Empty == [k \in {} |-> 0]

Object(val, undef) == [val |-> val, undef |-> undef]

(* JSON.parse(JSON.stringify(o)) *)
Json(o) == o.val

(* String.prototype.trim *)
RECURSIVE TrimStart(_)
TrimStart(str) ==
  IF str # <<>> /\ Head(str) = " " THEN TrimStart(Tail(str)) ELSE str

RECURSIVE TrimEnd(_)
TrimEnd(str) ==
  IF str # <<>> /\ str[Len(str)] = " "
    THEN TrimEnd(SubSeq(str, 1, Len(str) - 1))
    ELSE str

Trim(str) == TrimEnd(TrimStart(str))

(* value of key k copied from payload p: p.k, trimmed for title and note; *)
(* the key is there with the value undefined when p does not provide it   *)
Copied(p, keys) ==
  Object([k \in keys \cap DOMAIN p |->
            IF k \in {"title", "note"} THEN Trim(p[k]) ELSE p[k]],
         keys \ DOMAIN p)

(* repository createTask, lines 941-947: the object literal has no category *)
createValidatedPayload(payload) ==
  Copied(payload, {"title", "note", "priority", "reminderEnabled", "reminderTime"})

(* repository updateTask, lines 966-973: six keys, each present whether or *)
(* not the caller provided it; no category                                 *)
updateValidatedPayload(payload) ==
  Copied(payload, {"title", "note", "priority", "reminderEnabled", "reminderTime",
                   "isCompleted"})

(* the validation without the trim *)
createTitleMissing_noTrim(payload) ==
  "title" \notin DOMAIN payload \/ payload.title = <<>>

(* !payload.title || payload.title.trim().length === 0 *)
createTitleMissing(payload) ==
  "title" \notin DOMAIN payload \/ payload.title = <<>> \/ Trim(payload.title) = <<>>

(* payload.title !== undefined && payload.title.trim().length === 0 *)
updateTitleEmpty(payload) ==
  "title" \in DOMAIN payload /\ Trim(payload.title) = <<>>

(* getAllTasks: category: task.category || "personal", written back when *)
(* some task had none                                                    *)
Migrated(ts) ==
  [i \in 1..Len(ts) |->
     IF "category" \in DOMAIN ts[i] THEN ts[i]
                                    ELSE ts[i] @@ ("category" :> "personal")]

(* { ...a, ...b }: the keys of b, those with the value undefined included, *)
(* replace the keys of a                                                   *)
Spread(a, b) ==
  Object([k \in (DOMAIN a.val \ b.undef) \cup DOMAIN b.val |->
            IF k \in DOMAIN b.val THEN b.val[k] ELSE a.val[k]],
         (a.undef \ DOMAIN b.val) \cup b.undef)

PayloadKeys ==
  {"title", "note", "priority", "category", "reminderEnabled", "reminderTime"}

(* task-storage createTask, lines 226-238: the object literal newTask; a key *)
(* the payload has no value for gets the value undefined                     *)
newTask(id, p, clock) ==
  Object([k \in PayloadKeys \cap DOMAIN p.val |-> p.val[k]]
           @@ [id |-> id, isCompleted |-> FALSE, createdAt |-> clock,
               updatedAt |-> clock],
         PayloadKeys \ DOMAIN p.val)

(* task-storage updateTask, lines 270-274: updatedTask *)
updatedTask(task, p, clock) ==
  Spread(Spread(Object(task, {}), p), Object([updatedAt |-> clock], {}))

StoredIds(ts) == {ts[i].id : i \in 1..Len(ts)}
StoredTask(ts, id) == ts[CHOOSE i \in 1..Len(ts) : ts[i].id = id]

(* repository createTask(payload), which ends in taskStorage.createTask *)
createTask(payload) ==
  /\ storeOps < MaxStoreOps
  /\ storeOps' = storeOps + 1
  /\ IF createTitleMissing(payload)
       THEN /\ lastCall' = [op |-> "createTask", payload |-> payload,
                            threw |-> TRUE]
            /\ UNCHANGED <<stored, uuids>>
       ELSE /\ uuids < MaxTasks
            /\ uuids' = uuids + 1
            /\ stored' =
                 Append(Migrated(stored),
                        Json(newTask(uuids + 1, createValidatedPayload(payload), now)))
            /\ lastCall' = [op |-> "createTask", payload |-> payload,
                            threw |-> FALSE,
                            handed |-> createValidatedPayload(payload),
                            id |-> uuids + 1]
  /\ UNCHANGED <<engineVars, screenVars, contextVars>>

(* repository updateTask(id, payload), which ends in taskStorage.updateTask *)
updateTask(id, payload) ==
  /\ storeOps < MaxStoreOps
  /\ storeOps' = storeOps + 1
  /\ IF updateTitleEmpty(payload)
       THEN /\ lastCall' = [op |-> "updateTask", id |-> id, payload |-> payload,
                            threw |-> TRUE]
            /\ UNCHANGED stored
       ELSE IF id \notin StoredIds(stored)
         THEN /\ lastCall' = [op |-> "updateTask", id |-> id, payload |-> payload,
                              threw |-> FALSE, found |-> FALSE]
              /\ stored' = Migrated(stored)
         ELSE /\ lastCall' = [op |-> "updateTask", id |-> id, payload |-> payload,
                              threw |-> FALSE, found |-> TRUE,
                              read |-> Migrated(stored),
                              handed |-> updateValidatedPayload(payload)]
              /\ stored' =
                   [i \in 1..Len(stored) |->
                      IF stored[i].id = id
                        THEN Json(updatedTask(Migrated(stored)[i],
                                              updateValidatedPayload(payload), now))
                        ELSE Migrated(stored)[i]]
  /\ UNCHANGED <<uuids, engineVars, screenVars, contextVars>>

(* what a caller passes: AddTaskDialog's form data, the tests' payloads *)
TitleInputs == {<<"a">>, <<" ", "a", " ", "b", " ">>, <<" ", " ">>}

CreatePayloads ==
  {[title |-> t, priority |-> p, reminderEnabled |-> e]
     @@ (IF n THEN [note |-> <<" ", "n">>] ELSE Empty)
     @@ (IF c THEN [category |-> "work"] ELSE Empty)
     @@ (IF e THEN [reminderTime |-> R1] ELSE Empty) :
       t \in TitleInputs, p \in {"high", "medium"}, e \in BOOLEAN, n \in BOOLEAN,
       c \in BOOLEAN}

(* one new value for every key of UpdateTaskPayload *)
UpdateValues ==
  [title |-> <<"c", " ">>, note |-> <<"m">>, priority |-> "low",
   category |-> "health", reminderEnabled |-> FALSE, reminderTime |-> R2,
   isCompleted |-> TRUE]

UpdatePayloads ==
  {[k \in K |-> UpdateValues[k]] : K \in SUBSET DOMAIN UpdateValues}
    \cup {[title |-> <<" ">>]}

NextStore ==
  \/ \E payload \in CreatePayloads : createTask(payload)
  \/ \E id \in TaskIds, payload \in UpdatePayloads : updateTask(id, payload)

SpecStore == Init /\ [][NextStore]_vars

----------------------------------------------------------------------------
(* Task context (lib/context/task-context.tsx) over the repository and the  *)
(* storage.  state.tasks holds the values of the task objects; a key whose  *)
(* value is undefined reads like a missing key.  A callback runs in steps   *)
(* separated by the AsyncStorage calls it awaits: calls[c] is its position. *)

Action(type, payload) == [type |-> type, payload |-> payload]

(* tasks.findIndex((t) => t.id === id) *)
findIndex(ts, id) ==
  IF \E i \in 1..Len(ts) : ts[i].id = id
    THEN CHOOSE i \in 1..Len(ts) :
           ts[i].id = id /\ \A j \in 1..(i - 1) : ts[j].id # id
    ELSE 0

taskReducer(st, action) ==
  CASE action.type = "SET_TASKS" ->
         [st EXCEPT !.tasks = action.payload, !.loading = FALSE]
    [] action.type = "ADD_TASK" ->
         [st EXCEPT !.tasks = <<action.payload>> \o st.tasks]
    [] action.type = "UPDATE_TASK" ->
         IF findIndex(st.tasks, action.payload.id) = 0
           THEN st
           ELSE [st EXCEPT !.tasks[findIndex(st.tasks, action.payload.id)] =
                             action.payload]
    [] action.type = "DELETE_TASK" ->
         [st EXCEPT !.tasks = SelectSeq(st.tasks, LAMBDA t : t.id # action.payload)]
    [] action.type = "SET_LOADING" -> [st EXCEPT !.loading = action.payload]
    [] action.type = "SET_ERROR" -> [st EXCEPT !.error = action.payload]

(* the dispatches of one step, in order *)
RECURSIVE Dispatch(_, _)
Dispatch(st, actions) ==
  IF actions = <<>> THEN st
                    ELSE Dispatch(taskReducer(st, Head(actions)), Tail(actions))

(* messages of the errors thrown *)
TitleRequired == "Task title is required"
TitleEmpty == "Task title cannot be empty"
StorageError == "AsyncStorage error"

(* a.isCompleted as the comparator and the toggle read it *)
IsCompleted(t) == "isCompleted" \in DOMAIN t /\ t.isCompleted
CompletedValue(t) ==
  IF "isCompleted" \notin DOMAIN t THEN "undefined"
  ELSE IF t.isCompleted THEN "true" ELSE "false"

PRIORITY_ORDER == [high |-> 0, medium |-> 1, low |-> 2]

(* PRIORITY_ORDER[a.priority] ?? 2 *)
PriorityRank(t) ==
  IF "priority" \in DOMAIN t /\ t.priority \in DOMAIN PRIORITY_ORDER
    THEN PRIORITY_ORDER[t.priority]
    ELSE 2

(* the comparator of getAllTasksSorted; createdAt is the instant that the   *)
(* ISO string stands for                                                    *)
compare(a, b) ==
  IF CompletedValue(a) # CompletedValue(b)
    THEN (IF IsCompleted(a) THEN 1 ELSE 0 - 1)
  ELSE IF ~IsCompleted(a) /\ ~IsCompleted(b) /\ PriorityRank(a) # PriorityRank(b)
    THEN PriorityRank(a) - PriorityRank(b)
  ELSE b.createdAt - a.createdAt

Orders(n) ==
  {f \in [1..n -> 1..n] : \A i, j \in 1..n : i # j => f[i] # f[j]}

(* tasks.sort(compare): a stable sort.  An outcome never places a before b  *)
(* when compare(a, b) > 0, and keeps the order of the list where compare    *)
(* gives 0.  When compare answers a before b and b before a alike, which of *)
(* the two comes first depends on the calls the engine's sort makes: both   *)
(* orders are outcomes.                                                     *)
SortOutcomes(ts) ==
  {[i \in 1..Len(ts) |-> ts[f[i]]] : f \in
     {g \in Orders(Len(ts)) :
        \A i, j \in 1..Len(ts) : i < j =>
          /\ compare(ts[g[i]], ts[g[j]]) <= 0
          /\ compare(ts[g[i]], ts[g[j]]) = 0 => g[i] < g[j]}}

NoCallInFlight == \A c \in CallIds : calls[c].pc \in {"idle", "done"}

Free(c) == calls[c].pc \in {"idle", "done"}

(* a callback has returned: ok with a result, or with the error rethrown *)
Returned(fn, id, payload, threw, message) ==
  [pc |-> "done", fn |-> fn, id |-> id, payload |-> payload, threw |-> threw,
   message |-> message, before |-> state.tasks, storedBefore |-> stored]

(* loadTasks up to the await of getAllTasksSorted: SET_LOADING true *)
loadTasks(c) ==
  /\ Free(c)
  /\ storeOps < MaxStoreOps
  /\ storeOps' = storeOps + 1
  /\ state' = Dispatch(state, <<Action("SET_LOADING", TRUE)>>)
  /\ calls' = [calls EXCEPT ![c] =
                 [pc |-> "read", fn |-> "loadTasks", op |-> "getAllTasksSorted",
                  id |-> NoTaskId, payload |-> Empty, before |-> state.tasks,
                  storedBefore |-> stored]]
  /\ UNCHANGED <<stored, uuids, lastCall, ioFailures, returned, engineVars,
                 screenVars>>

(* the context's createTask up to the first await of storage createTask:    *)
(* SET_ERROR null, the repository's validation, the object literal newTask  *)
createTaskFn(c, payload) ==
  /\ Free(c)
  /\ storeOps < MaxStoreOps
  /\ storeOps' = storeOps + 1
  /\ IF createTitleMissing(payload)
       THEN /\ state' = Dispatch(state, <<Action("SET_ERROR", NoError),
                                          Action("SET_ERROR", TitleRequired)>>)
            /\ calls' = [calls EXCEPT ![c] =
                           Returned("createTask", NoTaskId, payload, TRUE,
                                    TitleRequired)]
            /\ UNCHANGED uuids
       ELSE /\ uuids < MaxTasks
            /\ uuids' = uuids + 1
            /\ state' = Dispatch(state, <<Action("SET_ERROR", NoError)>>)
            /\ calls' = [calls EXCEPT ![c] =
                 [pc |-> "read", fn |-> "createTask", op |-> "createTask",
                  id |-> uuids + 1, payload |-> payload,
                  task |-> newTask(uuids + 1, createValidatedPayload(payload), now),
                  before |-> state.tasks, storedBefore |-> stored]]
  /\ UNCHANGED <<stored, lastCall, ioFailures, returned, engineVars, screenVars>>

(* updateTaskFn up to the first await of storage updateTask *)
updateTaskFn(c, id, payload) ==
  /\ Free(c)
  /\ storeOps < MaxStoreOps
  /\ storeOps' = storeOps + 1
  /\ IF updateTitleEmpty(payload)
       THEN /\ state' = Dispatch(state, <<Action("SET_ERROR", NoError),
                                          Action("SET_ERROR", TitleEmpty)>>)
            /\ calls' = [calls EXCEPT ![c] =
                           Returned("updateTask", id, payload, TRUE, TitleEmpty)]
       ELSE /\ state' = Dispatch(state, <<Action("SET_ERROR", NoError)>>)
            /\ calls' = [calls EXCEPT ![c] =
                 [pc |-> "read", fn |-> "updateTask", op |-> "updateTask",
                  id |-> id, payload |-> payload,
                  handed |-> updateValidatedPayload(payload),
                  before |-> state.tasks, storedBefore |-> stored]]
  /\ UNCHANGED <<stored, uuids, lastCall, ioFailures, returned, engineVars,
                 screenVars>>

(* deleteTaskFn up to the first await of storage deleteTask *)
deleteTaskFn(c, id) ==
  /\ Free(c)
  /\ storeOps < MaxStoreOps
  /\ storeOps' = storeOps + 1
  /\ state' = Dispatch(state, <<Action("SET_ERROR", NoError)>>)
  /\ calls' = [calls EXCEPT ![c] =
                 [pc |-> "read", fn |-> "deleteTask", op |-> "deleteTask",
                  id |-> id, payload |-> Empty, before |-> state.tasks,
                  storedBefore |-> stored]]
  /\ UNCHANGED <<stored, uuids, lastCall, ioFailures, returned, engineVars,
                 screenVars>>

(* toggleTaskCompletionFn up to the first await of getTaskById *)
toggleTaskCompletionFn(c, id) ==
  /\ Free(c)
  /\ storeOps < MaxStoreOps
  /\ storeOps' = storeOps + 1
  /\ state' = Dispatch(state, <<Action("SET_ERROR", NoError)>>)
  /\ calls' = [calls EXCEPT ![c] =
                 [pc |-> "read", fn |-> "toggleTaskCompletion",
                  op |-> "getTaskById", id |-> id, payload |-> Empty,
                  before |-> state.tasks, storedBefore |-> stored]]
  /\ UNCHANGED <<stored, uuids, lastCall, ioFailures, returned, engineVars,
                 screenVars>>

(* the callback returns without an error *)
Finish(call, result) ==
  [pc |-> "done", fn |-> call.fn, id |-> call.id, payload |-> call.payload,
   threw |-> FALSE, message |-> NoError, result |-> result,
   before |-> call.before, storedBefore |-> call.storedBefore]

(* the callback's catch: SET_ERROR message, throw error *)
Rethrow(call, message) ==
  [pc |-> "done", fn |-> call.fn, id |-> call.id, payload |-> call.payload,
   threw |-> TRUE, message |-> message,
   before |-> call.before, storedBefore |-> call.storedBefore]

(* the list that waits for setItem *)
Write(call, list, dispatch, result) ==
  [call EXCEPT !.pc = "write"] @@
    [list |-> list, dispatch |-> dispatch, result |-> result]

(* getAllTasks of callback c gets its answer from AsyncStorage.getItem: the *)
(* stored list with its migration written back, or [] when the read failed  *)
(* (the catch of getAllTasks).  The callback then runs up to its next await *)
(* or to its end.                                                           *)
getItem(c, ok) ==
  /\ calls[c].pc = "read"
  /\ IF ok THEN UNCHANGED ioFailures
           ELSE /\ ioFailures < MaxIoFailures
                /\ ioFailures' = ioFailures + 1
  /\ stored' = IF ok THEN Migrated(stored) ELSE stored
  /\ LET call == calls[c]
         read == IF ok THEN Migrated(stored) ELSE <<>>
         index == findIndex(read, call.id)
     IN CASE call.op = "getAllTasksSorted" ->
               \E sorted \in SortOutcomes(read) :
                 /\ state' = Dispatch(state, <<Action("SET_TASKS", sorted),
                                               Action("SET_ERROR", NoError)>>)
                 /\ calls' = [calls EXCEPT ![c] =
                                Finish(call, [ok |-> ok, read |-> read,
                                              sorted |-> sorted])]
          [] call.op = "createTask" ->
               /\ calls' = [calls EXCEPT ![c] =
                    Write(call, Append(read, Json(call.task)),
                          Action("ADD_TASK", Json(call.task)), Json(call.task))]
               /\ UNCHANGED state
          [] call.op = "updateTask" ->
               IF index = 0
                 THEN /\ calls' = [calls EXCEPT ![c] = Finish(call, Empty)]
                      /\ UNCHANGED state
                 ELSE LET updated == Json(updatedTask(read[index], call.handed, now))
                      IN /\ calls' = [calls EXCEPT ![c] =
                              Write(call, [read EXCEPT ![index] = updated],
                                    Action("UPDATE_TASK", updated), updated)]
                         /\ UNCHANGED state
          [] call.op = "deleteTask" ->
               IF index = 0
                 THEN /\ calls' = [calls EXCEPT ![c] = Finish(call, Empty)]
                      /\ UNCHANGED state
                 ELSE /\ calls' = [calls EXCEPT ![c] =
                           Write(call,
                                 SelectSeq(read, LAMBDA t : t.id # call.id),
                                 Action("DELETE_TASK", call.id), Empty)]
                      /\ UNCHANGED state
          [] call.op = "getTaskById" ->
               IF index = 0
                 THEN /\ calls' = [calls EXCEPT ![c] = Finish(call, Empty)]
                      /\ UNCHANGED state
                 ELSE /\ calls' = [calls EXCEPT ![c] =
                           [call EXCEPT !.op = "updateTask"] @@
                             [handed |->
                                Object([isCompleted |-> ~IsCompleted(read[index])],
                                       {})]]
                      /\ UNCHANGED state
  /\ UNCHANGED <<uuids, storeOps, lastCall, returned, engineVars, screenVars>>

(* what the callers have been told once call has returned its result *)
Returning(call) ==
  CASE call.op = "createTask" ->
         [returned EXCEPT !.created = @ \cup {call.id}]
    [] call.op = "deleteTask" ->
         [returned EXCEPT !.deleted = @ \cup {call.id}]
    [] call.op = "updateTask" ->
         IF "title" \in DOMAIN call.handed.val
           THEN [returned EXCEPT !.titled = @ \cup {call.id}]
           ELSE [returned EXCEPT !.titled = @ \ {call.id}]

(* AsyncStorage.setItem of callback c: the whole list replaces the stored   *)
(* one and the callback dispatches its result, or setItem throws and the    *)
(* callback's catch dispatches SET_ERROR and rethrows                       *)
setItem(c, ok) ==
  /\ calls[c].pc = "write"
  /\ LET call == calls[c]
     IN IF ok
          THEN /\ stored' = call.list
               /\ state' = Dispatch(state, <<call.dispatch>>)
               /\ calls' = [calls EXCEPT ![c] = Finish(call, call.result)]
               /\ returned' = Returning(call)
               /\ UNCHANGED ioFailures
          ELSE /\ ioFailures < MaxIoFailures
               /\ ioFailures' = ioFailures + 1
               /\ state' = Dispatch(state, <<Action("SET_ERROR", StorageError)>>)
               /\ calls' = [calls EXCEPT ![c] = Rethrow(call, StorageError)]
               /\ UNCHANGED <<stored, returned>>
  /\ UNCHANGED <<uuids, storeOps, lastCall, engineVars, screenVars>>

(* Stored lists that getAllTasksSorted is given: tasks of every priority,   *)
(* complete, incomplete, or without isCompleted (a task that updateTask has *)
(* rewritten from a payload without isCompleted), created at two instants   *)
MaxStored == 3

StoredShapes(id) ==
  {[id |-> id, title |-> <<"a">>, priority |-> p, createdAt |-> t,
    updatedAt |-> t, category |-> "personal"]
     @@ (IF k = "undefined" THEN Empty ELSE [isCompleted |-> (k = "true")]) :
       p \in DOMAIN PRIORITY_ORDER, t \in {Instants[1], Instants[2]},
       k \in {"true", "false", "undefined"}}

StoredLists ==
  UNION {{ts \in [1..n -> UNION {StoredShapes(id) : id \in 1..n}] :
            \A i \in 1..n : ts[i].id = i} : n \in 0..MaxStored}

InitSort ==
  /\ tasks = <<>>
  /\ created = 0
  /\ edits = 0
  /\ now = Instants[3]
  /\ notificationMap = <<>>
  /\ scheduled = {}
  /\ nextId = 1
  /\ pass = [p \in PassIds |-> IdlePass]
  /\ lastArg = [has |-> FALSE, tasks |-> <<>>]
  /\ syncCount = 0
  /\ failures = 0
  /\ InitScreen
  /\ stored \in StoredLists
  /\ uuids = Len(stored)
  /\ storeOps = MaxStoreOps - 1
  /\ lastCall = NoCall
  /\ InitContext

(* the stored list is loaded and sorted, once *)
NextSort ==
  \/ \E c \in CallIds : NoCallInFlight /\ loadTasks(c)
  \/ \E c \in CallIds, ok \in BOOLEAN : getItem(c, ok)

SpecSort == InitSort /\ [][NextSort]_vars

(* payloads of the forms: a title, a blank title, a priority *)
ContextCreatePayloads ==
  {[title |-> t, priority |-> p, reminderEnabled |-> FALSE] :
     t \in {<<"a">>, <<" ", " ">>}, p \in {"high", "low"}}

ContextUpdatePayloads ==
  {[title |-> <<"c">>], [priority |-> "low"], [title |-> <<" ">>]}

ContextCalls(c) ==
  \/ loadTasks(c)
  \/ \E payload \in ContextCreatePayloads : createTaskFn(c, payload)
  \/ \E id \in TaskIds, payload \in ContextUpdatePayloads :
       updateTaskFn(c, id, payload)
  \/ \E id \in TaskIds : deleteTaskFn(c, id)
  \/ \E id \in TaskIds : toggleTaskCompletionFn(c, id)

(* the callbacks one after the other, as a user who waits for each *)
NextContext ==
  \/ \E c \in CallIds : NoCallInFlight /\ ContextCalls(c)
  \/ \E c \in CallIds, ok \in BOOLEAN : getItem(c, ok)
  \/ \E c \in CallIds, ok \in BOOLEAN : setItem(c, ok)

SpecContext == Init /\ [][NextContext]_vars

(* AsyncStorage settles every promise: a callback that awaits getItem or    *)
(* setItem gets its answer, a value or a rejection                          *)
AsyncStorageSettles ==
  \A c \in CallIds :
    /\ WF_vars(\E ok \in BOOLEAN : getItem(c, ok))
    /\ WF_vars(\E ok \in BOOLEAN : setItem(c, ok))

SpecContextFair == SpecContext /\ AsyncStorageSettles

(* the callbacks started while others are awaiting AsyncStorage *)
NextConcurrent ==
  \/ \E c \in CallIds : ContextCalls(c)
  \/ \E c \in CallIds, ok \in BOOLEAN : getItem(c, ok)
  \/ \E c \in CallIds, ok \in BOOLEAN : setItem(c, ok)

SpecConcurrent == Init /\ [][NextConcurrent]_vars

----------------------------------------------------------------------------
(* Properties.  A call is one record of pass[p].log: one invocation of      *)
(* scheduleTaskReminder with the events it handed to the scheduler.         *)

CallsOf(p) == {pass[p].log[j] : j \in DOMAIN pass[p].log}
AllCalls == UNION {CallsOf(p) : p \in PassIds}
Offsets(c) == {c.submitted[k].seconds : k \in DOMAIN c.submitted}
Tiers(c) == {c.submitted[k].tier : k \in DOMAIN c.submitted}
Failed(c) == \E k \in DOMAIN c.submitted : ~c.submitted[k].ok
LeadSeconds(c) == c.lead \div 1000
AdvanceTierNames == {"advance24", "advance12", "advance6"}

(* the call at position j of pass p has returned into syncNotifications *)
Resumed(p, j) == j < Len(pass[p].log) \/ pass[p].pc # "resume"

Entries(m) == {m[i] : i \in DOMAIN m}
CancelsOf(p, nid) ==
  Cardinality({k \in DOMAIN pass[p].cancelCalls :
                 pass[p].cancelCalls[k].notificationId = nid})
Absent(p, id) == id \notin Ids(pass[p].tasks)
Disabled(p, id) ==
  id \in Ids(pass[p].tasks) /\ Find(pass[p].tasks, id).reminderEnabled = FALSE
Active(p, id) ==
  /\ id \in Ids(pass[p].tasks)
  /\ Find(pass[p].tasks, id).reminderEnabled = TRUE
  /\ Find(pass[p].tasks, id).reminderTime # NoTime
(* pass p ran to its end right after a pass over the same collection *)
SecondRun(p) ==
  pass[p].pc = "done" /\ pass[p].hasPrev /\ pass[p].prev = pass[p].tasks

(* C1, as claimed: a pass run to completion right after a pass over the same *)
(* collection hands no event to the scheduler, issues no cancel call and     *)
(* leaves the ledger as it found it.                                         *)
C1_Idempotent ==
  \A p \in PassIds :
    SecondRun(p) =>
      /\ \A c \in CallsOf(p) : c.submitted = <<>>
      /\ pass[p].cancelCalls = <<>>
      /\ notificationMap = pass[p].map0

(* C1, amended: such a second pass issues no cancel call and keeps every      *)
(* ledger entry of the first; it calls scheduleTaskReminder only for active   *)
(* tasks the first pass left without a ledger entry, so when every active     *)
(* task has an entry it issues no scheduler call and the ledger is unchanged. *)
C1_IdempotentOnceRecorded ==
  \A p \in PassIds :
    SecondRun(p) =>
      /\ pass[p].cancelCalls = <<>>
      /\ Len(notificationMap) >= Len(pass[p].map0)
      /\ SubSeq(notificationMap, 1, Len(pass[p].map0)) = pass[p].map0
      /\ \A c \in CallsOf(p) :
           Active(p, c.taskId) /\ c.taskId \notin MapKeys(pass[p].map0)
      /\ (\A i \in DOMAIN pass[p].tasks :
            Active(p, pass[p].tasks[i].id) =>
              pass[p].tasks[i].id \in MapKeys(pass[p].map0))
           => (pass[p].log = <<>> /\ notificationMap = pass[p].map0)

C1_Witness ==
  \E p \in PassIds :
    /\ SecondRun(p)
    /\ pass[p].map0 # <<>>
    /\ pass[p].log = <<>>
    /\ \E n \in scheduled : n.id = pass[p].map0[1].notificationId

(* C2: a task with a ledger entry when a pass starts and absent from the pass's *)
(* collection gets exactly one cancel request for the handle recorded for it,   *)
(* and has no ledger entry when the pass completes.                             *)
C2_DeletionCancelsOnce ==
  \A p \in PassIds :
    pass[p].pc = "done" =>
      \A e \in Entries(pass[p].map0) :
        Absent(p, e.taskId) =>
          /\ CancelsOf(p, e.notificationId) = 1
          /\ e.taskId \notin MapKeys(notificationMap)

C2_Witness ==
  \E p \in PassIds :
    /\ pass[p].pc = "done"
    /\ pass[p].hasPrev
    /\ \E e \in Entries(pass[p].map0) :
         Absent(p, e.taskId) /\ e.taskId \in Ids(pass[p].prev)

(* C3: after a pass over a collection in which a task with a ledger entry is *)
(* absent or disabled, and all of whose cancel calls succeeded, the scheduler *)
(* holds no pending notification carrying that task's id.                     *)
C3_NothingPendingAfterRemoval ==
  \A p \in PassIds :
    (pass[p].pc = "done" /\ \A k \in DOMAIN pass[p].cancelCalls :
                              pass[p].cancelCalls[k].ok) =>
      \A e \in Entries(pass[p].map0) :
        (Absent(p, e.taskId) \/ Disabled(p, e.taskId)) =>
          \A n \in scheduled : n.taskId # e.taskId

C5_NoScheduleWithoutReminder ==
  \A p \in PassIds :
    /\ \A c \in CallsOf(p) :
         /\ c.taskId \in Ids(pass[p].tasks)
         /\ Find(pass[p].tasks, c.taskId).reminderEnabled = TRUE
         /\ Find(pass[p].tasks, c.taskId).reminderTime # NoTime
    /\ \A id \in MapKeys(notificationMap) \ MapKeys(pass[p].map0) :
         pass[p].pc # "idle" =>
         /\ id \in Ids(pass[p].tasks)
         /\ Find(pass[p].tasks, id).reminderEnabled = TRUE
         /\ Find(pass[p].tasks, id).reminderTime # NoTime

C5_Witness ==
  \E p \in PassIds :
    /\ pass[p].pc = "done"
    /\ \E c \in CallsOf(p) : c.submitted # <<>>
    /\ \E i \in DOMAIN pass[p].tasks :
         /\ pass[p].tasks[i].reminderEnabled = FALSE
         /\ pass[p].tasks[i].reminderTime # NoTime

(* C6: every event handed to the scheduler has an offset of more than zero *)
(* seconds.                                                                *)
C6_PositiveOffsets ==
  \A c \in AllCalls : \A k \in DOMAIN c.submitted : c.submitted[k].seconds > 0

(* C7: a call for a task whose lead time is zero or negative hands no event to *)
(* the scheduler and returns no id, and the task has no ledger entry after it. *)
C7_PastLeadSchedulesNothing ==
  \A p \in PassIds : \A j \in DOMAIN pass[p].log :
    pass[p].log[j].lead <= 0 =>
      /\ pass[p].log[j].submitted = <<>>
      /\ pass[p].log[j].result = NoId
      /\ Resumed(p, j) => pass[p].log[j].taskId \notin MapKeys(notificationMap)

C7_Witness ==
  \E p \in PassIds :
    /\ pass[p].pc = "done"
    /\ \E c \in CallsOf(p) : c.lead <= 0 /\ c.granted

(* C8: with permission granted and a lead of L > 0 whole seconds, the offsets  *)
(* handed to the scheduler by a call that ran to its end are exactly L-24h iff *)
(* L > 24h, L-12h iff L > 12h, L-6h iff L > 6h, L, and L+2..L+10 minutes, one  *)
(* event each; a call cut short by a failure handed over only such offsets.    *)
(* For L = 25h these are 1h, 13h, 19h, 25h, 25h+2m .. 25h+10m, in this order.  *)
C8_Expected(L) ==
  (IF L > 86400 THEN {L - 86400} ELSE {})
    \cup (IF L > 43200 THEN {L - 43200} ELSE {})
    \cup (IF L > 21600 THEN {L - 21600} ELSE {})
    \cup {L, L + 120, L + 240, L + 360, L + 480, L + 600}

C8_ExactOffsets ==
  \A c \in AllCalls :
    (c.granted /\ LeadSeconds(c) > 0) =>
      /\ Offsets(c) \subseteq C8_Expected(LeadSeconds(c))
      /\ c.result # NoId =>
           /\ Offsets(c) = C8_Expected(LeadSeconds(c))
           /\ Len(c.submitted) = Cardinality(C8_Expected(LeadSeconds(c)))
           /\ \E k \in DOMAIN c.submitted :
                /\ c.submitted[k].tier = "main"
                /\ c.submitted[k].seconds = LeadSeconds(c)
      /\ (c.result # NoId /\ c.lead = 90000000) =>
           [k \in DOMAIN c.submitted |-> c.submitted[k].seconds]
             = <<3600, 46800, 68400, 90000, 90120, 90240, 90360, 90480, 90600>>

C8_Witness ==
  \E p \in PassIds :
    /\ pass[p].pc = "done"
    /\ \E c \in CallsOf(p) :
         c.lead = 90000000 /\ c.result # NoId /\ Len(c.submitted) = 9

(* C9: a tier is included only when the lead strictly exceeds its horizon: a  *)
(* call with 0 < L <= 6h hands over no advance event and, run to its end,     *)
(* exactly 6 events; a lead of exactly 6h, 12h or 24h leaves out that tier.    *)
C9_StrictHorizons ==
  \A c \in AllCalls :
    /\ (c.lead > 0 /\ c.lead <= 21600000) =>
         /\ Tiers(c) \cap AdvanceTierNames = {}
         /\ (c.granted /\ ~Failed(c)) => Len(c.submitted) = 6
    /\ c.lead = 21600000 => "advance6" \notin Tiers(c)
    /\ c.lead = 43200000 => "advance12" \notin Tiers(c)
    /\ c.lead = 86400000 => "advance24" \notin Tiers(c)
    /\ \A k \in DOMAIN c.submitted :
         /\ c.submitted[k].tier = "advance6" => c.lead > 21600000
         /\ c.submitted[k].tier = "advance12" => c.lead > 43200000
         /\ c.submitted[k].tier = "advance24" => c.lead > 86400000

C9_Witness ==
  \E p \in PassIds :
    /\ pass[p].pc = "done"
    /\ \E c \in CallsOf(p) :
         c.lead = 10800000 /\ c.result # NoId /\ Len(c.submitted) = 6

(* C10: when the scheduler fails on one event of a task, every other event of *)
(* the task's desired set is still handed to the scheduler in the same call.  *)
C10_SiblingsStillSubmitted ==
  \A c \in AllCalls :
    (Failed(c) /\ LeadSeconds(c) > 0) =>
      Len(c.submitted) = Cardinality(C8_Expected(LeadSeconds(c)))

(* C11: when a call of scheduleTaskReminder had at least one event accepted  *)
(* by the scheduler and another event of the same task failed, the task has  *)
(* a ledger entry when the pass completes.                                   *)
C11_PartialFailureRecorded ==
  \A p \in PassIds :
    pass[p].pc = "done" =>
      \A c \in CallsOf(p) :
        (Failed(c) /\ \E k \in DOMAIN c.submitted : c.submitted[k].ok) =>
          c.taskId \in MapKeys(notificationMap)

(* C12: a call made with notification permission denied hands no event to    *)
(* the scheduler, returns no id and leaves the task without a ledger entry;  *)
(* a later pass in which the task is still active and still without an entry *)
(* calls scheduleTaskReminder for it again and, with permission granted, the *)
(* reminder in the future and the scheduler accepting the events, every      *)
(* event of the task is scheduled and its ledger entry is created.           *)
C12_DeniedThenGranted ==
  \A p \in PassIds :
    /\ \A j \in DOMAIN pass[p].log :
         ~pass[p].log[j].granted =>
           /\ pass[p].log[j].submitted = <<>>
           /\ pass[p].log[j].result = NoId
           /\ Resumed(p, j) => pass[p].log[j].taskId \notin MapKeys(notificationMap)
    /\ (pass[p].pc = "done" /\ pass[p].hasPrev) =>
         \A id \in Ids(pass[p].tasks) \cap Ids(pass[p].prev) :
           ( /\ Active(p, id)
             /\ Find(pass[p].prev, id).reminderEnabled = TRUE
             /\ Find(pass[p].prev, id).reminderTime # NoTime
             /\ id \notin MapKeys(pass[p].map0) ) =>
             \E c \in CallsOf(p) :
               /\ c.taskId = id
               /\ (c.granted /\ c.lead > 0 /\ ~Failed(c)) =>
                    /\ Len(c.submitted) = Cardinality(C8_Expected(LeadSeconds(c)))
                    /\ c.result # NoId
                    /\ MapGet(notificationMap, id) = c.result

(* no scheduler call has thrown, so the first pass left the task without *)
(* an entry because permission was denied                                *)
C12_Witness ==
  \E p \in PassIds :
    /\ pass[p].pc = "done"
    /\ pass[p].hasPrev
    /\ failures = 0
    /\ \E c \in CallsOf(p) :
         /\ c.granted
         /\ c.lead > 0
         /\ c.taskId \in Ids(pass[p].prev)
         /\ Find(pass[p].prev, c.taskId).reminderEnabled = TRUE
         /\ Find(pass[p].prev, c.taskId).reminderTime # NoTime
         /\ c.taskId \notin MapKeys(pass[p].map0)
         /\ MapGet(notificationMap, c.taskId) = c.result
         /\ c.result # NoId

(* C13: whatever scheduler calls fail, a pass runs to its end: when it has   *)
(* completed, scheduleTaskReminder was called for every active task of its   *)
(* collection that had no ledger entry, and every ledger entry whose task is *)
(* absent, disabled or without a reminderTime got a cancel request and is    *)
(* gone; a pass in flight always has its next step to take.                  *)
C13_FailuresDoNotAbort ==
  \A p \in PassIds :
    /\ pass[p].pc = "done" =>
         /\ \A id \in Ids(pass[p].tasks) :
              (Active(p, id) /\ id \notin MapKeys(pass[p].map0)) =>
                \E c \in CallsOf(p) : c.taskId = id
         /\ \A e \in Entries(pass[p].map0) :
              ~Active(p, e.taskId) =>
                /\ CancelsOf(p, e.notificationId) >= 1
                /\ e.taskId \notin MapKeys(notificationMap)
    /\ pass[p].pc = "sched" => pass[p].i \in DOMAIN pass[p].tasks
    /\ pass[p].pc = "cancel" => pass[p].toCancel # <<>>

(* the first cancel call of a pass failed and the second was still made *)
C13_Witness ==
  \E p \in PassIds :
    /\ pass[p].pc = "done"
    /\ Len(pass[p].cancelCalls) = 2
    /\ ~pass[p].cancelCalls[1].ok
    /\ pass[p].cancelCalls[2].ok

(* the first schedule call of a pass failed and the second was still made *)
C13_WitnessSchedule ==
  \E p \in PassIds :
    /\ pass[p].pc = "done"
    /\ Len(pass[p].log) = 2
    /\ Failed(pass[p].log[1])
    /\ pass[p].log[2].result # NoId

(* C14: once a pass has collected its cancel list, and so when it has        *)
(* completed, the ledger has no key for a task that is absent from or        *)
(* disabled in the pass's collection; in particular the entry whose cancel   *)
(* call failed is gone.                                                      *)
C14_RemovedThoughCancelFailed ==
  \A p \in PassIds :
    pass[p].pc \in {"cancel", "done"} =>
      /\ \A id \in MapKeys(notificationMap) : ~Absent(p, id) /\ ~Disabled(p, id)
      /\ \A k \in DOMAIN pass[p].cancelCalls :
           ~pass[p].cancelCalls[k].ok =>
             \A e \in Entries(pass[p].map0) :
               e.notificationId = pass[p].cancelCalls[k].notificationId =>
                 /\ e.taskId \notin MapKeys(notificationMap)
                 /\ e \notin Entries(notificationMap)

(* a completed pass whose cancel call for a disabled or deleted task failed, *)
(* the notification still being held by the scheduler                        *)
C14_Witness ==
  \E p \in PassIds :
    /\ pass[p].pc = "done"
    /\ \E k \in DOMAIN pass[p].cancelCalls :
         /\ ~pass[p].cancelCalls[k].ok
         /\ \E e \in Entries(pass[p].map0) :
              /\ e.notificationId = pass[p].cancelCalls[k].notificationId
              /\ Absent(p, e.taskId) \/ Disabled(p, e.taskId)
              /\ \E n \in scheduled : n.id = e.notificationId

InFlight == {p \in PassIds : pass[p].pc \in {"sched", "resume", "cancel"}}

(* C16: passes are strictly serialized: at no time are the schedule or *)
(* cancel calls of two invocations of syncNotifications in flight.     *)
C16_Serialized == Cardinality(InFlight) <= 1

C18_TapRouting ==
  /\ \A k \in DOMAIN taps :
       IF taps[k].taskId # NoTaskId /\ taps[k].taskId \in taps[k].ids
         THEN taps[k].after = <<taps[k].taskId, TRUE>>
         ELSE taps[k].after = taps[k].before
  /\ \A n \in scheduled : n.taskId \in 1..created
  /\ delivered \subseteq 1..created
  /\ \A c \in AllCalls :
       (* the ids a completed call was given: those of its advance events, *)
       (* the returned id of the at-time event, and five follow-ups        *)
       c.result # NoId =>
         \A n \in scheduled :
           n.id \in (c.result - (Len(c.submitted) - 6))..(c.result + 5)
             => n.taskId = c.taskId

(* one tap opened an existing task, another carried the id of a deleted task *)
C18_Witness ==
  \E j, k \in DOMAIN taps :
    /\ taps[j].taskId \in taps[j].ids
    /\ taps[j].before = <<NoTaskId, FALSE>>
    /\ taps[j].after = <<taps[j].taskId, TRUE>>
    /\ taps[k].taskId # NoTaskId
    /\ taps[k].taskId \notin taps[k].ids

(* out is str without its leading and trailing spaces *)
IsTrimOf(out, str) ==
  /\ \E i \in 1..(Len(str) + 1), j \in 0..Len(str) :
       /\ out = SubSeq(str, i, j)
       /\ \A k \in 1..(i - 1) : str[k] = " "
       /\ \A k \in (j + 1)..Len(str) : str[k] = " "
  /\ out # <<>> => (out[1] # " " /\ out[Len(out)] # " ")

(* C19: after updateTask(id, payload) on a stored task, every field the      *)
(* payload does not provide has the value it had before (updatedAt apart),   *)
(* every provided field, category included, has the provided value (title    *)
(* and note trimmed), and every other stored task is unchanged.              *)
C19_UpdateOnlyProvided ==
  (lastCall.op = "updateTask" /\ ~lastCall.threw /\ lastCall.found) =>
    LET p == lastCall.payload
        b == StoredTask(lastCall.read, lastCall.id)
        a == StoredTask(stored, lastCall.id)
    IN /\ \A k \in (DOMAIN b \cup DOMAIN a) \ (DOMAIN p \cup {"updatedAt"}) :
            k \in DOMAIN a /\ k \in DOMAIN b /\ a[k] = b[k]
       /\ \A k \in DOMAIN p :
            /\ k \in DOMAIN a
            /\ IF k \in {"title", "note"} THEN IsTrimOf(a[k], p[k])
                                          ELSE a[k] = p[k]
       /\ \A i \in 1..Len(stored) :
            stored[i].id # lastCall.id => stored[i] = lastCall.read[i]

(* C20: repository createTask hands storage its input with title and note   *)
(* trimmed and priority, category, reminderEnabled and reminderTime as they  *)
(* were given, and the stored task has the category and the reminder         *)
(* settings the caller supplied.                                             *)
C20_CreateKeepsEveryField ==
  (lastCall.op = "createTask" /\ ~lastCall.threw) =>
    LET p == lastCall.payload
        h == lastCall.handed.val
        s == StoredTask(stored, lastCall.id)
    IN /\ "title" \in DOMAIN h /\ IsTrimOf(h.title, p.title)
       /\ "note" \in DOMAIN p => ("note" \in DOMAIN h /\ IsTrimOf(h.note, p.note))
       /\ \A k \in {"priority", "category", "reminderEnabled", "reminderTime"} :
            IF k \in DOMAIN p THEN k \in DOMAIN h /\ h[k] = p[k]
                              ELSE k \notin DOMAIN h
       /\ \A k \in {"category", "reminderEnabled", "reminderTime"} \cap DOMAIN p :
            k \in DOMAIN s /\ s[k] = p[k]

(* a title that is empty or consists of spaces only *)
Blank(title) == \A i \in DOMAIN title : title[i] = " "

(* callback c returns in this step *)
Returns(c) == calls[c].pc # "done" /\ calls'[c].pc = "done"

(* C21: the context's createTask with an empty or whitespace-only title     *)
(* returns by rethrowing the error "Task title is required": the stored     *)
(* list is not written, state.tasks is unchanged and state.error is that    *)
(* message.                                                                 *)
C21_BlankTitleRejected ==
  [][\A c \in CallIds :
       (/\ calls'[c] # calls[c]
        /\ calls'[c].pc = "done"
        /\ calls'[c].fn = "createTask"
        /\ Blank(calls'[c].payload.title))
       => /\ calls'[c].threw
          /\ calls'[c].message = TitleRequired
          /\ calls[c].pc # "write"
          /\ stored' = stored
          /\ state'.tasks = state.tasks
          /\ state'.error = TitleRequired]_vars

(* a whitespace-only title was rejected while the list held a task *)
C21_Witness ==
  \E c \in CallIds :
    /\ calls[c].pc = "done"
    /\ calls[c].fn = "createTask"
    /\ calls[c].payload.title = <<" ", " ">>
    /\ calls[c].threw
    /\ state.error = TitleRequired
    /\ state.tasks # <<>>
    /\ state.tasks = calls[c].before
    /\ stored = calls[c].storedBefore

(* out is a permutation of the list in (ids are distinct) *)
PermutationOf(out, in) ==
  /\ Len(out) = Len(in)
  /\ {out[i] : i \in 1..Len(out)} = {in[i] : i \in 1..Len(in)}

(* the order of the claim: high before medium before low *)
ClaimedRank(t) == CASE t.priority = "high" -> 0
                    [] t.priority = "medium" -> 1
                    [] t.priority = "low" -> 2

SortedAsClaimed(in, out) ==
  /\ PermutationOf(out, in)
  /\ in = <<>> => out = <<>>
  /\ \A i, j \in 1..Len(out) : i < j =>
       /\ ~(IsCompleted(out[i]) /\ ~IsCompleted(out[j]))
       /\ (~IsCompleted(out[i]) /\ ~IsCompleted(out[j]))
            => ClaimedRank(out[i]) <= ClaimedRank(out[j])
       /\ (/\ IsCompleted(out[i]) = IsCompleted(out[j])
           /\ ClaimedRank(out[i]) = ClaimedRank(out[j]))
            => out[i].createdAt >= out[j].createdAt

(* C22: getAllTasksSorted returns a permutation of the stored tasks in which *)
(* every incomplete task precedes every completed one, incomplete tasks are *)
(* ordered high, medium, low, tasks equal on completion and priority are    *)
(* ordered by createdAt, newest first, and an empty store gives an empty    *)
(* list.                                                                    *)
C22_SortedList ==
  \A c \in CallIds :
    (/\ calls[c].pc = "done"
     /\ calls[c].fn = "loadTasks"
     /\ calls[c].result.ok)
    => SortedAsClaimed(calls[c].result.read, calls[c].result.sorted)

(* the same for stored lists in which every task has isCompleted *)
SortedWhenIsCompletedStored ==
  \A c \in CallIds :
    (/\ calls[c].pc = "done"
     /\ calls[c].fn = "loadTasks"
     /\ calls[c].result.ok
     /\ \A i \in 1..Len(calls[c].result.read) :
          "isCompleted" \in DOMAIN calls[c].result.read[i])
    => SortedAsClaimed(calls[c].result.read, calls[c].result.sorted)

(* the sort has an outcome for every stored list *)
SortHasOutcome == \A ts \in {stored} : SortOutcomes(Migrated(ts)) # {}

(* pending notifications of one task and one tier or follow-up number *)
PendingOf(taskId, tier) ==
  {n \in scheduled : n.taskId = taskId /\ n.tier = tier}

(* C23: the scheduler never holds more than one pending notification for    *)
(* the same task and the same slot (at-time, an advance tier, one of the    *)
(* five follow-ups), whatever changes and passes have happened.             *)
C23_NoDuplicateScheduling ==
  \A n \in scheduled : Cardinality(PendingOf(n.taskId, n.tier)) <= 1

(* the same once no scheduler call has failed *)
NoDuplicateWithoutFailure ==
  failures = 0 => C23_NoDuplicateScheduling

(* every pass has completed, the last one was started for the collection as *)
(* it is now, permission was granted in every call and no scheduler call    *)
(* has failed                                                               *)
AllPassesCompleted ==
  /\ NoPassInFlight
  /\ lastArg.has /\ lastArg.tasks = tasks
  /\ failures = 0
  /\ \A c \in AllCalls : c.granted

(* some pass started while another was awaiting the scheduler *)
Overlapped == \A p \in PassIds : pass[p].pc = "done"

(* C24: when passes for an older and a newer collection have interleaved    *)
(* and all have completed, permission granted and no scheduler failure,     *)
(* every task of the newest collection with an active future reminder has a *)
(* ledger entry and a pending at-time notification, and every ledger entry  *)
(* belongs to a task that is in the newest collection with its reminder     *)
(* enabled.                                                                 *)
C24_ConvergesAfterOverlap ==
  (AllPassesCompleted /\ Overlapped) =>
    /\ \A i \in 1..Len(tasks) :
         (HasReminder(tasks[i]) /\ tasks[i].reminderTime > now) =>
           /\ MapHas(notificationMap, tasks[i].id)
           /\ PendingOf(tasks[i].id, "main") # {}
    /\ \A e \in Entries(notificationMap) :
         /\ e.taskId \in Ids(tasks)
         /\ Find(tasks, e.taskId).reminderEnabled

(* the call that pass p has just come back from *)
LastCall(p) == pass[p].log[Len(pass[p].log)]

(* C25: a ledger entry is written only by a pass that comes back from a     *)
(* call of scheduleTaskReminder for that task in which the scheduler        *)
(* accepted every event of the desired set (the applicable advance tiers,   *)
(* the at-time event, the five follow-ups), and its value is the id of the  *)
(* at-time notification that this call scheduled.                           *)
C25_EntryImpliesCompleteSchedule ==
  [][/\ \A e \in Entries(notificationMap') \ Entries(notificationMap) :
          \E p \in PassIds :
            /\ pass[p].pc = "resume"
            /\ pass[p].tasks[pass[p].i].id = e.taskId
            /\ pass[p].result = e.notificationId
            /\ LastCall(p).taskId = e.taskId
            /\ LastCall(p).result = e.notificationId
            /\ \A k \in DOMAIN LastCall(p).submitted : LastCall(p).submitted[k].ok
            /\ Offsets(LastCall(p)) = C8_Expected(LeadSeconds(LastCall(p)))
            /\ Len(LastCall(p).submitted)
                 = Cardinality(C8_Expected(LeadSeconds(LastCall(p))))
     /\ \A p \in PassIds :
          (pass[p].pc = "sched" /\ pass'[p].pc = "resume"
             /\ pass'[p].result # NoId) =>
            /\ Cardinality(scheduled' \ scheduled)
                 = Len(pass'[p].log[Len(pass'[p].log)].submitted)
            /\ \E n \in scheduled' \ scheduled :
                 /\ n.id = pass'[p].result
                 /\ n.tier = "main"
                 /\ n.taskId = pass[p].tasks[pass[p].i].id]_vars

(* a task 25 h ahead has its entry, whose value is the id of the at-time    *)
(* notification, the fourth one scheduled for it                            *)
C25_Witness ==
  \E e \in Entries(notificationMap) :
    \E n \in scheduled :
      /\ n.id = e.notificationId /\ n.taskId = e.taskId /\ n.tier = "main"
      /\ PendingOf(e.taskId, "advance24") # {}
      /\ PendingOf(e.taskId, "followUp5") # {}

(* collections that differ in isCompleted only, and do differ *)
OnlyCompletionDiffers(old, new) ==
  /\ old # new
  /\ Len(old) = Len(new)
  /\ \A i \in 1..Len(old) : [old[i] EXCEPT !.isCompleted = new[i].isCompleted] = new[i]

(* pass p was started for a collection that differs from that of the pass   *)
(* before it by completion toggles only                                     *)
TriggeredByToggle(p) ==
  /\ pass[p].pc # "idle"
  /\ pass[p].hasPrev
  /\ OnlyCompletionDiffers(pass[p].prev, pass[p].tasks)

(* C26: the pass triggered by toggling a task's completion issues no        *)
(* schedule call and no cancel call and leaves the ledger unchanged.        *)
C26_ToggleLeavesSchedulingUntouched ==
  \A p \in PassIds :
    TriggeredByToggle(p) =>
      /\ pass[p].log = <<>>
      /\ pass[p].cancelCalls = <<>> /\ pass[p].toCancel = <<>>
      /\ pass[p].pc \notin {"sched", "resume", "cancel"}
      /\ notificationMap = pass[p].map0

(* C26 as amended: the pass triggered by toggling a task's completion       *)
(* issues no cancel call, keeps every ledger entry and calls                *)
(* scheduleTaskReminder only for active tasks that had no ledger entry when *)
(* it started; a task with a ledger entry, completed or not, is left alone. *)
C26_ToggleLeavesLedgeredUntouched ==
  \A p \in PassIds :
    TriggeredByToggle(p) =>
      /\ pass[p].cancelCalls = <<>> /\ pass[p].toCancel = <<>>
      /\ pass[p].pc # "cancel"
      /\ \A e \in Entries(pass[p].map0) : e \in Entries(notificationMap)
      /\ \A c \in CallsOf(p) : c.taskId \notin MapKeys(pass[p].map0)
      /\ (\A i \in 1..Len(pass[p].tasks) :
            HasReminder(pass[p].tasks[i])
              => pass[p].tasks[i].id \in MapKeys(pass[p].map0))
           => /\ pass[p].log = <<>>
              /\ notificationMap = pass[p].map0

(* a task with a ledger entry was completed, the pass has run and the       *)
(* task's at-time notification is still pending                             *)
C26_Witness ==
  \E p \in PassIds :
    /\ TriggeredByToggle(p)
    /\ pass[p].pc = "done"
    /\ pass[p].log = <<>>
    /\ \E i \in 1..Len(tasks) :
         /\ tasks[i].isCompleted
         /\ HasReminder(tasks[i])
         /\ MapHas(notificationMap, tasks[i].id)
         /\ PendingOf(tasks[i].id, "main") # {}
         /\ PendingOf(tasks[i].id, "followUp5") # {}

(* every callback has returned, none by throwing, no AsyncStorage call failed *)
AllReturnedSuccessfully ==
  /\ NoCallInFlight
  /\ ioFailures = 0
  /\ \A c \in CallIds : calls[c].pc = "done" => ~calls[c].threw

(* C27: once all calls have returned successfully, the stored list contains *)
(* every task whose creation returned and whose deletion did not, and a     *)
(* stored task has the title that the last update to return has set,        *)
(* whatever the interleaving of the calls.                                  *)
C27_NoLostUpdate ==
  AllReturnedSuccessfully =>
    /\ (returned.created \ returned.deleted) \subseteq StoredIds(stored)
    /\ \A id \in returned.titled \cap StoredIds(stored) :
         /\ "title" \in DOMAIN StoredTask(stored, id)
         /\ StoredTask(stored, id).title = <<"c">>

(* ids of the tasks in state.tasks *)
StateIds == {state.tasks[i].id : i \in 1..Len(state.tasks)}

(* some context callback has completed and none is running *)
ActionsCompleted ==
  /\ NoCallInFlight
  /\ \E c \in CallIds : calls[c].pc = "done"

(* C28: when the context actions have completed, with or without an error,  *)
(* the ids in state.tasks are the ids of the stored list, and an action     *)
(* that failed has left state.tasks as it was.                              *)
C28_StateMatchesStore ==
  /\ ActionsCompleted => StateIds = StoredIds(stored)
  /\ \A c \in CallIds :
       (calls[c].pc = "done" /\ calls[c].threw /\ NoCallInFlight
          /\ \A d \in CallIds \ {c} : calls[d].pc = "idle")
         => state.tasks = calls[c].before

(* the same when no AsyncStorage call has failed and the list was loaded *)
StateMatchesStoreWithoutIoFailure ==
  (ActionsCompleted /\ ioFailures = 0) => StateIds = StoredIds(stored)

(* the order the claim gives to the slots of one task *)
SlotOrder ==
  <<"advance24", "advance12", "advance6", "main",
    "followUp1", "followUp2", "followUp3", "followUp4", "followUp5">>

SlotRank(tier) == CHOOSE r \in DOMAIN SlotOrder : SlotOrder[r] = tier

(* C29: the scheduler calls of one scheduleTaskReminder are issued in the   *)
(* order 24h, 12h, 6h advance, at-time, follow-up 1 to 5; a call is issued  *)
(* only when the one before it has been awaited and accepted; the offsets   *)
(* are strictly increasing in that order.                                   *)
C29_SchedulingOrder ==
  \A c \in AllCalls :
    /\ \A k \in DOMAIN c.submitted : c.submitted[k].tier \in
         {SlotOrder[r] : r \in DOMAIN SlotOrder}
    /\ \A j, k \in DOMAIN c.submitted : j < k =>
         /\ SlotRank(c.submitted[j].tier) < SlotRank(c.submitted[k].tier)
         /\ c.submitted[j].seconds < c.submitted[k].seconds
         /\ c.submitted[j].ok

(* all nine calls of a task 25 h ahead were issued, first the 24h advance   *)
(* and last the fifth follow-up; and a call that stopped at a failing       *)
(* follow-up after the at-time call                                         *)
C29_Witness ==
  \E c \in AllCalls :
    /\ Len(c.submitted) = 9
    /\ c.submitted[1].tier = "advance24"
    /\ c.submitted[4].tier = "main"
    /\ c.submitted[9].tier = "followUp5"
    /\ c.submitted[9].ok

(* callback c is a loadTasks that awaits the repository *)
Loading(c) == calls[c].pc = "read" /\ calls[c].fn = "loadTasks"

(* callback c is the last one to have returned, a loadTasks whose read of   *)
(* the stored list failed                                                   *)
LoadFailed(c) ==
  /\ calls[c].pc = "done" /\ calls[c].fn = "loadTasks"
  /\ ~calls[c].result.ok
  /\ \A d \in CallIds \ {c} : calls[d].pc = "idle"

(* every loadTasks comes to its end with state.loading false *)
LoadingEventuallyFalse ==
  \A c \in CallIds : Loading(c) ~> (calls[c].pc = "done" /\ ~state.loading)

(* C30: every loadTasks eventually leaves state.loading false, whether the  *)
(* read succeeds or fails, and after a failed read state.error is not null  *)
(* and state.tasks is what it was before.                                   *)
C30_LoadingAlwaysEnds ==
  /\ LoadingEventuallyFalse
  /\ [](\A c \in CallIds :
          LoadFailed(c) => /\ state.error # NoError
                           /\ state.tasks = calls[c].before)

====
